---- MODULE Spec2Model ----
(***************************************************************************)
(* The tokenizer dispatch layer of tiktoken-node (src/lib.rs): the two     *)
(* lazily built statics ENCODINGS and TOKENIZER, the bounded request       *)
(* queue, the pool of actor threads that run run_tokenizer_actor, the      *)
(* facade operations of Tokenizer that build a TokenizerMessage, enqueue   *)
(* it and await its oneshot reply, and the SyncTokenizer constructor.      *)
(*                                                                         *)
(* A caller slot c stands for one task of the host that calls the facade;  *)
(* the message it has in flight is named by c, so that the queue and the   *)
(* workers hold caller ids and msg[c] holds the message's fields.          *)
(***************************************************************************)
EXTENDS Integers, Sequences, FiniteSets, TLC

\* ------------------------------------------------------------------ bounds
\* Number of caller tasks that use the facade concurrently.
NumCallers == 3
\* Capacity of the request queue.  The source passes 256 to bounded(); the
\* model scales it down so that a full queue is reachable with NumCallers
\* callers.  Every formula is stated in terms of Capacity.
Capacity == 2
\* Number of calls made one at a time whose results are kept for comparison.
MaxCalls == 2

\* ------------------------------------------------------- program constants
\* for i in 0..4: the number of actor threads Tokenizer::new spawns.
NumWorkers == 4

Callers == 1..NumCallers

\* ------------------------------------------------------------- value types
SupportedEncoding == {"Cl100k", "Llama3", "O200k", "Codestral"}

SpecialTokenAction == {"Forbidden", "NormalText", "Special"}

\* The one special marker the inputs of the model may contain.
Marker == "<|endoftext|>"

\* A text with no special marker in it.
Plain == "hello, world"

\* anyhow::Result<T> carried by a reply channel, and Result<T, Error> handed
\* to the caller: tag "ok" with a value, or tag "err" with the reason text.
NoResult == [tag |-> "none", val |-> <<>>]
Ok(v) == [tag |-> "ok", val |-> v]
Err(reason) == [tag |-> "err", val |-> <<reason>>]

\* The reason of the error the facade makes when recv.await fails.
ActorKilled == "Actor task has been killed: channel closed"

NoMsg == [kind |-> "none"]

\* A oneshot channel: not yet made, open, holding the value sent, closed by
\* the drop of its sender without a value, or refused (a value was sent
\* after the receiver was dropped, and given back to the sender).
NoChan == [st |-> "none", val |-> NoResult]
OpenChan == [st |-> "open", val |-> NoResult]
ClosedChan == [st |-> "closed", val |-> NoResult]
RefusedChan == [st |-> "refused", val |-> NoResult]
SentChan(r) == [st |-> "sent", val |-> r]

VARIABLES
  ENCODINGS,   \* the ENCODINGS static: "uninit", "ok" or "err"
  builds,      \* how many times the closure of ENCODINGS has run
  TOKENIZER,   \* the TOKENIZER static: "uninit", "ok", "err" or "poisoned"
  channels,    \* how many queues bounded() has made
  spawned,     \* how many actor threads have been started
  idle,        \* how many actor threads are blocked in recv_blocking()
  holding,     \* holding[c]: how many actor threads are inside
               \* handle_message with c's message
  dead,        \* how many actor threads a panic has unwound
  queue,       \* the messages in the bounded channel, oldest first
  closed,      \* whether the bounded channel is closed
  before,      \* <<a, b>>: a and b are queued and a's enqueue completed first
  handle,      \* what the latest get_tokenizer call gave: "none", "ok" (a
               \* Tokenizer, which the callers share), "err" or "panic"
  syncTok,     \* what the last SyncTokenizer constructor call gave
  pc,          \* pc[c]: "idle", "sending", "awaiting", "done", "cancelled"
  msg,         \* msg[c]: the fields of c's message while it exists
  chan,        \* chan[c]: the oneshot channel of c's request
  outcome,     \* outcome[c]: what the facade operation returned to c
  handled,     \* handled[c]: times handle_message was entered with c's message
  sendCalls,   \* sendCalls[c]: times respond_to.send was called on c's channel
  syncOut,     \* the latest SyncTokenizer::approx_num_tokens call: its
               \* arguments and the value it returned
  arg,         \* the arguments the host passes in the calls of calls
  calls,       \* the facade calls made one at a time on the idle dispatcher:
               \* operation, selector, message built, value returned
  stuck        \* the caller whose message an actor thread is handling
               \* without ever returning, 0 when no thread is stalled

vars == <<ENCODINGS, builds, TOKENIZER, channels, spawned, idle, holding, dead, queue,
          closed, before, handle, syncTok, pc, msg, chan, outcome, handled,
          sendCalls, syncOut, arg, calls, stuck>>

statics == <<ENCODINGS, builds, TOKENIZER, channels, spawned, handle, syncTok>>

workers == <<idle, holding, dead>>

direct == <<syncOut, arg, calls>>

\* No SyncTokenizer::approx_num_tokens call was made yet.
NoSync == [done |-> FALSE, text |-> "", encoding |-> "", val |-> 0]

\* The arguments of the calls of a host that makes none through calls.
NoArg == [text |-> Marker, default |-> 1, overrides |-> <<>>, flag |-> FALSE,
          token |-> 101]

\* The process after module_init: nothing is built yet.
Loaded ==
  /\ ENCODINGS = "uninit"
  /\ builds = 0
  /\ TOKENIZER = "uninit"
  /\ channels = 0
  /\ spawned = 0
  /\ idle = 0
  /\ holding = [c \in Callers |-> 0]
  /\ dead = 0
  /\ queue = <<>>
  /\ closed = FALSE
  /\ before = {}
  /\ handle = "none"
  /\ syncTok = "none"
  /\ pc = [c \in Callers |-> "idle"]
  /\ msg = [c \in Callers |-> NoMsg]
  /\ chan = [c \in Callers |-> NoChan]
  /\ outcome = [c \in Callers |-> NoResult]
  /\ handled = [c \in Callers |-> 0]
  /\ sendCalls = [c \in Callers |-> 0]
  /\ syncOut = NoSync
  /\ calls = <<>>
  /\ stuck = 0

Init == Loaded /\ arg = NoArg

\* ------------------------------------------------------------- the statics
\* Lazy::force on ENCODINGS: the closure runs on the first access only, and
\* its result, built table or EncodingFactoryError, is kept.  r is what the
\* build gives if it runs now.
EncodingsForced(r) == IF ENCODINGS = "uninit" THEN r ELSE ENCODINGS

ForceEncodings(r) ==
  /\ ENCODINGS' = EncodingsForced(r)
  /\ builds' = IF ENCODINGS = "uninit" THEN builds + 1 ELSE builds

\* Tokenizer::new: bounded(256), then four times ENCODINGS.clone().unwrap()
\* and a thread spawn.  unwrap() panics on the cached Err in the first
\* iteration, before any thread is spawned; the queue made is dropped with
\* the frame.  The result is "ok", or "panic" when the call unwinds.
TokenizerNewResult(r) == IF EncodingsForced(r) = "ok" THEN "ok" ELSE "panic"

TokenizerNew(r) ==
  /\ channels' = channels + 1
  /\ ForceEncodings(r)
  /\ IF EncodingsForced(r) = "ok"
       THEN /\ spawned' = spawned + NumWorkers
            /\ idle' = idle + NumWorkers
       ELSE UNCHANGED <<spawned, idle>>

\* What TOKENIZER.clone() gives once the static has the state t: the handle,
\* the cached error value, or the panic of a poisoned Lazy.
TokenizerClone(t) ==
  CASE t = "ok" -> "ok"
    [] t = "err" -> "err"
    [] OTHER -> "panic"

\* get_tokenizer: Lazy::force on TOKENIZER, then clone.  The closure
\* Tokenizer::new().map_err(..) runs on the first access only; when it
\* panics the Lazy is left poisoned and every later access panics.
GetTokenizerNoLazy(r) ==
  /\ TokenizerNew(r)
  /\ TOKENIZER' = IF TokenizerNewResult(r) = "ok" THEN "ok" ELSE "poisoned"
  /\ handle' = TokenizerClone(TOKENIZER')
  /\ UNCHANGED <<holding, dead, queue, closed, before, syncTok, pc, msg, chan,
                 outcome, handled, sendCalls, direct, stuck>>

GetTokenizer(r) ==
  /\ IF TOKENIZER = "uninit"
       THEN /\ TokenizerNew(r)
            /\ TOKENIZER' = IF TokenizerNewResult(r) = "ok" THEN "ok"
                            ELSE "poisoned"
       ELSE UNCHANGED <<TOKENIZER, channels, ENCODINGS, builds, spawned, idle>>
  /\ handle' = TokenizerClone(TOKENIZER')
  /\ UNCHANGED <<holding, dead, queue, closed, before, syncTok, pc, msg, chan,
                 outcome, handled, sendCalls, direct, stuck>>

\* SyncTokenizer::new: Ok(Self { encodings: ENCODINGS.clone().unwrap() }).
SyncTokenizerNew(r) ==
  /\ ForceEncodings(r)
  /\ syncTok' = IF EncodingsForced(r) = "ok" THEN "ok" ELSE "panic"
  /\ UNCHANGED <<TOKENIZER, channels, spawned, idle, holding, dead, queue,
                 closed, before, handle, pc, msg, chan, outcome, handled,
                 sendCalls, direct, stuck>>

\* ---------------------------------------------------- the encoding engine
\* The tiktoken crate is an external collaborator; these operators stand for
\* its required surface.  A text either is plain or is the special marker;
\* token 999 stands for an id outside the vocabulary.
HasMarker(text) == text = Marker

\* SpecialTokenHandling lookup: the override of a marker when it is a key,
\* the default otherwise.
Resolve(sth, m) ==
  IF m \in DOMAIN sth.overrides THEN sth.overrides[m] ELSE sth.default

\* Token ids of the four tables are kept apart by a base per table.
EncBase(enc) ==
  CASE enc = "Cl100k" -> 100
    [] enc = "Llama3" -> 200
    [] enc = "O200k" -> 300
    [] enc = "Codestral" -> 400

\* encode(text, policy): the marker is an error when Forbidden, one special
\* token when Special, ordinary bytes when NormalText.
EngineEncode(enc, text, sth) ==
  IF ~HasMarker(text) THEN Ok(<<EncBase(enc) + 1, EncBase(enc) + 2, EncBase(enc) + 3>>)
  ELSE CASE Resolve(sth, Marker) = "Forbidden" -> Err("forbidden special token")
         [] Resolve(sth, Marker) = "Special" -> Ok(<<EncBase(enc) + 9>>)
         [] OTHER -> Ok(<<EncBase(enc) + 4, EncBase(enc) + 5>>)

\* encode_single_token_bytes(bytes): a vocabulary lookup of the whole input.
EngineEncodeSingleToken(enc, bytes) ==
  IF HasMarker(bytes) THEN Ok(<<EncBase(enc) + 9>>) ELSE Err("not one token")

\* decode_single_token_bytes(token): fails outside the vocabulary.
EngineDecodeSingleTokenBytes(enc, token) ==
  IF token = 999 THEN Err("token out of range") ELSE Ok(<<"bytes", enc, token>>)

\* decode(tokens): best effort, no error path.
EngineDecode(enc, tokens) == <<"text", enc, tokens>>

\* estimate_num_tokens_no_special_tokens_fast(text, flag): a method of the
\* selected table, which counts against that table's vocabulary, so that
\* the tables give different numbers; the marker is counted as ordinary
\* text, and the flag changes the count of a text with spaces.
EngineEstimate(enc, text, flag) ==
  (IF HasMarker(text) THEN 5 ELSE 3) + (IF flag /\ ~HasMarker(text) THEN 1 ELSE 0)
    + (EncBase(enc) \div 100 - 1)

\* ------------------------------------------------------------ the messages
\* to_tiktoken with the arms of NormalText and Special exchanged.
ToTiktokenSwapped(a) ==
  CASE a = 0 -> "Forbidden"
    [] a = 1 -> "Special"
    [] a = 2 -> "NormalText"

\* SpecialTokenAction::to_tiktoken: the napi enum (0, 1, 2) to the engine's.
ToTiktoken(a) ==
  CASE a = 0 -> "Forbidden"
    [] a = 1 -> "NormalText"
    [] a = 2 -> "Special"

\* SpecialTokenHandling { default: NormalText, ..Default::default() }.
NoSpecialTokens == [default |-> "NormalText", overrides |-> <<>>]

\* SpecialTokenHandling { default: d.to_tiktoken(), overrides: each value of
\* ov through to_tiktoken }.
Handling(d, ov) ==
  [default |-> ToTiktoken(d),
   overrides |-> [k \in DOMAIN ov |-> ToTiktoken(ov[k])]]

ExactNumTokensMsg(text, enc, sth) ==
  [kind |-> "ExactNumTokens", text |-> text, encoding |-> enc,
   special_token_handling |-> sth]
EncodeTokensMsg(text, enc, sth) ==
  [kind |-> "EncodeTokens", text |-> text, encoding |-> enc,
   special_token_handling |-> sth]
EncodeSingleTokenMsg(bytes, enc) ==
  [kind |-> "EncodeSingleToken", bytes |-> bytes, encoding |-> enc]
DecodeTokensMsg(tokens, enc) ==
  [kind |-> "DecodeTokens", tokens |-> tokens, encoding |-> enc]
DecodeTokenBytesMsg(token, enc) ==
  [kind |-> "DecodeTokenBytes", token |-> token, encoding |-> enc]
ApproximateNumTokensMsg(text, enc, flag) ==
  [kind |-> "ApproximateNumTokens", text |-> text, encoding |-> enc,
   replace_spaces_with_lower_one_eighth_block |-> flag]

\* handle_message whose DecodeTokens arm looks every id up first and
\* replies the lookup's error for an id outside the vocabulary.
HandleResultDecodeChecks(m) ==
  CASE m.kind = "ExactNumTokens" ->
         LET tokens == EngineEncode(m.encoding, m.text, m.special_token_handling)
         IN  IF tokens.tag = "ok" THEN Ok(<<Len(tokens.val)>>)
             ELSE Err("Error encoding string")
    [] m.kind = "EncodeTokens" ->
         LET tokens == EngineEncode(m.encoding, m.text, m.special_token_handling)
         IN  IF tokens.tag = "ok" THEN Ok(tokens.val)
             ELSE Err("Error encoding string")
    [] m.kind = "EncodeSingleToken" ->
         LET token == EngineEncodeSingleToken(m.encoding, m.bytes)
         IN  IF token.tag = "ok" THEN Ok(token.val)
             ELSE Err("Token not recognized")
    [] m.kind = "DecodeTokenBytes" ->
         LET bytes == EngineDecodeSingleTokenBytes(m.encoding, m.token)
         IN  IF bytes.tag = "ok" THEN Ok(bytes.val) ELSE Err(bytes.val[1])
    [] m.kind = "DecodeTokens" ->
         LET bytes == EngineDecodeSingleTokenBytes(m.encoding, m.tokens[1])
         IN  IF bytes.tag = "ok" THEN Ok(EngineDecode(m.encoding, m.tokens))
             ELSE Err(bytes.val[1])
    [] m.kind = "ApproximateNumTokens" ->
         Ok(<<EngineEstimate(m.encoding, m.text,
                             m.replace_spaces_with_lower_one_eighth_block)>>)

\* handle_message whose ExactNumTokens arm encodes with every marker taken
\* as normal text, whatever policy the message carries.
HandleResultIgnorePolicy(m) ==
  CASE m.kind = "ExactNumTokens" ->
         LET tokens == EngineEncode(m.encoding, m.text, NoSpecialTokens)
         IN  IF tokens.tag = "ok" THEN Ok(<<Len(tokens.val)>>)
             ELSE Err("Error encoding string")
    [] m.kind = "EncodeTokens" ->
         LET tokens == EngineEncode(m.encoding, m.text, m.special_token_handling)
         IN  IF tokens.tag = "ok" THEN Ok(tokens.val)
             ELSE Err("Error encoding string")
    [] m.kind = "EncodeSingleToken" ->
         LET token == EngineEncodeSingleToken(m.encoding, m.bytes)
         IN  IF token.tag = "ok" THEN Ok(token.val)
             ELSE Err("Token not recognized")
    [] m.kind = "DecodeTokenBytes" ->
         LET bytes == EngineDecodeSingleTokenBytes(m.encoding, m.token)
         IN  IF bytes.tag = "ok" THEN Ok(bytes.val) ELSE Err(bytes.val[1])
    [] m.kind = "DecodeTokens" -> Ok(EngineDecode(m.encoding, m.tokens))
    [] m.kind = "ApproximateNumTokens" ->
         Ok(<<EngineEstimate(m.encoding, m.text,
                             m.replace_spaces_with_lower_one_eighth_block)>>)

\* TokenizerActor::handle_message: the value the match arm of m's variant
\* passes to respond_to.send.
HandleResult(m) ==
  CASE m.kind = "ExactNumTokens" ->
         LET tokens == EngineEncode(m.encoding, m.text, m.special_token_handling)
         IN  IF tokens.tag = "ok" THEN Ok(<<Len(tokens.val)>>)
             ELSE Err("Error encoding string")
    [] m.kind = "EncodeTokens" ->
         LET tokens == EngineEncode(m.encoding, m.text, m.special_token_handling)
         IN  IF tokens.tag = "ok" THEN Ok(tokens.val)
             ELSE Err("Error encoding string")
    [] m.kind = "EncodeSingleToken" ->
         LET token == EngineEncodeSingleToken(m.encoding, m.bytes)
         IN  IF token.tag = "ok" THEN Ok(token.val)
             ELSE Err("Token not recognized")
    [] m.kind = "DecodeTokenBytes" ->
         LET bytes == EngineDecodeSingleTokenBytes(m.encoding, m.token)
         IN  IF bytes.tag = "ok" THEN Ok(bytes.val) ELSE Err(bytes.val[1])
    [] m.kind = "DecodeTokens" -> Ok(EngineDecode(m.encoding, m.tokens))
    [] m.kind = "ApproximateNumTokens" ->
         Ok(<<EngineEstimate(m.encoding, m.text,
                             m.replace_spaces_with_lower_one_eighth_block)>>)

\* SyncTokenizer::approx_num_tokens with the flag passed as true.
SyncApproxNarrow(text, encoding) == Ok(<<EngineEstimate(encoding, text, TRUE)>>)

\* SyncTokenizer::approx_num_tokens: the estimate of the selected table,
\* with the flag fixed to false, computed in the calling thread.
SyncApprox(text, encoding) == Ok(<<EngineEstimate(encoding, text, FALSE)>>)

\* ---------------------------------------------------------------- inputs
\* The arguments the callers of the model pass to the facade.  Between them
\* they make every handler reply both ways it can: the marker is forbidden
\* under default 0 and ordinary text under default 1, token 999 is outside
\* the vocabulary.
TextInputs == {Marker}
EncodingInputs == {"Cl100k"}
DefaultInputs == {0, 1}
OverrideInputs == {<<>>}
TokenInputs == {101, 999}
TokensInputs == {<<101, 102, 103>>}
FlagInputs == {FALSE}
\* The arguments of the calls made one at a time: every text, default
\* action, override of the marker, flag and token of CallArgs, on two of the
\* tables.
CallOverrides == {<<>>} \cup {(Marker :> a) : a \in 0..2}
CallArgs ==
  [text : {Marker, Plain}, default : 0..2, overrides : CallOverrides,
   flag : BOOLEAN, token : {101, 999}]
CallEncodings == {"Cl100k", "O200k"}
\* The arguments of the calls on SyncTokenizer.
SyncTextInputs == {Marker, Plain}
SyncEncodingInputs == {"Cl100k", "O200k"}

\* ------------------------------------------------------ the bounded channel
InQueue(c) == \E i \in 1..Len(queue) : queue[i] = c

QueuedSet == {queue[i] : i \in 1..Len(queue)}

RECURSIVE SumOver(_, _)
SumOver(f, S) ==
  IF S = {} THEN 0
  ELSE LET x == CHOOSE y \in S : TRUE IN f[x] + SumOver(f, S \ {x})

\* The actor threads inside handle_message that will return from it, the
\* threads stalled inside it, and those still running.
Busy == SumOver(holding, Callers)

Stalled == IF stuck = 0 THEN 0 ELSE 1

LiveWorkers == idle + Busy + Stalled

\* queue.push(msg) of a send that finds room: the message goes to the tail.
Enqueue(c) ==
  /\ queue' = Append(queue, c)
  /\ before' = before \cup {<<d, c>> : d \in QueuedSet}

\* PollSend with a queue that takes a message whatever it holds already.
PollSendUnbounded(c, m) ==
  IF closed
    THEN /\ chan' = [chan EXCEPT ![c] = ClosedChan]
         /\ msg' = [msg EXCEPT ![c] = NoMsg]
         /\ pc' = [pc EXCEPT ![c] = "awaiting"]
         /\ UNCHANGED <<queue, before>>
    ELSE /\ Enqueue(c)
         /\ chan' = [chan EXCEPT ![c] = OpenChan]
         /\ msg' = [msg EXCEPT ![c] = m]
         /\ pc' = [pc EXCEPT ![c] = "awaiting"]

\* PollSend with try_send in place of send: a full queue refuses the message
\* and it is dropped.
PollSendDropWhenFull(c, m) ==
  IF closed \/ Len(queue) >= Capacity
    THEN /\ chan' = [chan EXCEPT ![c] = ClosedChan]
         /\ msg' = [msg EXCEPT ![c] = NoMsg]
         /\ pc' = [pc EXCEPT ![c] = "awaiting"]
         /\ UNCHANGED <<queue, before>>
    ELSE /\ Enqueue(c)
         /\ chan' = [chan EXCEPT ![c] = OpenChan]
         /\ msg' = [msg EXCEPT ![c] = m]
         /\ pc' = [pc EXCEPT ![c] = "awaiting"]

\* One poll of self.sender.send(msg): on a closed channel the send fails and
\* the message is dropped with its respond_to (the error is ignored by
\* `let _ =`); with room the message is queued; on a full queue the future
\* stays pending, holding the message.
PollSend(c, m) ==
  IF closed
    THEN /\ chan' = [chan EXCEPT ![c] = ClosedChan]
         /\ msg' = [msg EXCEPT ![c] = NoMsg]
         /\ pc' = [pc EXCEPT ![c] = "awaiting"]
         /\ UNCHANGED <<queue, before>>
    ELSE IF Len(queue) < Capacity
      THEN /\ Enqueue(c)
           /\ chan' = [chan EXCEPT ![c] = OpenChan]
           /\ msg' = [msg EXCEPT ![c] = m]
           /\ pc' = [pc EXCEPT ![c] = "awaiting"]
      ELSE /\ chan' = [chan EXCEPT ![c] = OpenChan]
           /\ msg' = [msg EXCEPT ![c] = m]
           /\ pc' = [pc EXCEPT ![c] = "sending"]
           /\ UNCHANGED <<queue, before>>

\* ------------------------------------------------------------- the facade
\* The body every facade operation shares: oneshot::channel(), the message,
\* the send, and then the caller is at recv.await.
Submit(c, m) ==
  /\ pc[c] = "idle"
  /\ handle = "ok"
  /\ PollSend(c, m)
  /\ UNCHANGED <<statics, direct, stuck, workers, closed, outcome, handled, sendCalls>>

exact_num_tokens_no_special_tokens(c) ==
  \E text \in TextInputs, enc \in EncodingInputs :
    Submit(c, ExactNumTokensMsg(text, enc, NoSpecialTokens))

exact_num_tokens(c) ==
  \E text \in TextInputs, enc \in EncodingInputs,
     d \in DefaultInputs, ov \in OverrideInputs :
    Submit(c, ExactNumTokensMsg(text, enc, Handling(d, ov)))

encode_cl100k_no_special_tokens(c) ==
  \E text \in TextInputs :
    Submit(c, EncodeTokensMsg(text, "Cl100k", NoSpecialTokens))

approx_num_tokens(c) ==
  \E text \in TextInputs, enc \in EncodingInputs, flag \in FlagInputs :
    Submit(c, ApproximateNumTokensMsg(text, enc, flag))

encode(c) ==
  \E text \in TextInputs, enc \in EncodingInputs,
     d \in DefaultInputs, ov \in OverrideInputs :
    Submit(c, EncodeTokensMsg(text, enc, Handling(d, ov)))

encode_single_token(c) ==
  \E bytes \in TextInputs, enc \in EncodingInputs :
    Submit(c, EncodeSingleTokenMsg(bytes, enc))

decode_byte(c) ==
  \E token \in TokenInputs, enc \in EncodingInputs :
    Submit(c, DecodeTokenBytesMsg(token, enc))

decode(c) ==
  \E tokens \in TokensInputs, enc \in EncodingInputs :
    Submit(c, DecodeTokensMsg(tokens, enc))

\* A later poll of a pending send, after the sender was woken.
SendResume(c) ==
  /\ pc[c] = "sending"
  /\ closed \/ Len(queue) < Capacity
  /\ PollSend(c, msg[c])
  /\ UNCHANGED <<statics, direct, stuck, workers, closed, outcome, handled, sendCalls>>

\* AwaitResult with one error text for both failures.
AwaitResultFlat(ch) ==
  IF ch.st = "sent" /\ ch.val.tag = "ok" THEN ch.val ELSE Err(ActorKilled)

\* recv.await completes: Ok(result) is mapped through map_err, a closed
\* channel becomes the "Actor task has been killed" error.
AwaitResult(ch) ==
  IF ch.st = "sent" THEN ch.val ELSE Err(ActorKilled)

AwaitReply(c) ==
  /\ pc[c] = "awaiting"
  /\ chan[c].st \in {"sent", "closed"}
  /\ outcome' = [outcome EXCEPT ![c] = AwaitResult(chan[c])]
  /\ pc' = [pc EXCEPT ![c] = "done"]
  /\ UNCHANGED <<statics, direct, stuck, workers, queue, closed, before, msg, chan,
                 handled, sendCalls>>

\* The caller drops the future of the facade operation.  Dropped in the
\* send, the message goes with it; dropped in recv.await, only the receiver
\* of the oneshot channel goes, the message stays where it is.
Cancel(c) ==
  /\ pc[c] \in {"sending", "awaiting"}
  /\ pc' = [pc EXCEPT ![c] = "cancelled"]
  /\ IF pc[c] = "sending"
       THEN /\ msg' = [msg EXCEPT ![c] = NoMsg]
            /\ chan' = [chan EXCEPT ![c] = ClosedChan]
       ELSE UNCHANGED <<msg, chan>>
  /\ UNCHANGED <<statics, direct, stuck, workers, queue, closed, before, outcome,
                 handled, sendCalls>>

\* The caller task is done with the request; its slot is free for the next
\* call once the message of the old one is gone.
Return(c) ==
  /\ pc[c] \in {"done", "cancelled"}
  /\ msg[c] = NoMsg
  /\ pc' = [pc EXCEPT ![c] = "idle"]
  /\ chan' = [chan EXCEPT ![c] = NoChan]
  /\ outcome' = [outcome EXCEPT ![c] = NoResult]
  /\ handled' = [handled EXCEPT ![c] = 0]
  /\ sendCalls' = [sendCalls EXCEPT ![c] = 0]
  /\ UNCHANGED <<statics, direct, stuck, workers, queue, closed, before, msg>>

\* A call of approx_num_tokens on a SyncTokenizer the host has made: no
\* message, no channel, the value is returned at once.
sync_approx_num_tokens ==
  /\ syncTok = "ok"
  /\ \E text \in SyncTextInputs, encoding \in SyncEncodingInputs :
       syncOut' = [done |-> TRUE, text |-> text, encoding |-> encoding,
                   val |-> SyncApprox(text, encoding).val[1]]
  /\ UNCHANGED <<statics, workers, queue, closed, before, pc, msg, chan,
                 outcome, handled, sendCalls, arg, calls, stuck>>

\* A facade operation called while no other call is in flight and run to
\* its end: the message m is built and sent, an idle thread takes it and
\* replies HandleResult(m), and recv.await hands the reply to the caller.
DirectCall(op, encoding, m) ==
  /\ handle = "ok"
  /\ \A c \in Callers : pc[c] = "idle"
  /\ Len(calls) < MaxCalls
  /\ calls' = Append(calls, [op |-> op, encoding |-> encoding, msg |-> m,
                             val |-> AwaitResult(SentChan(HandleResult(m)))])
  /\ UNCHANGED <<statics, workers, queue, closed, before, pc, msg, chan,
                 outcome, handled, sendCalls, syncOut, arg, stuck>>

call_exact_num_tokens_no_special_tokens ==
  \E enc \in CallEncodings :
    DirectCall("exact_num_tokens_no_special_tokens", enc,
               ExactNumTokensMsg(arg.text, enc, NoSpecialTokens))

call_exact_num_tokens ==
  \E enc \in CallEncodings :
    DirectCall("exact_num_tokens", enc,
               ExactNumTokensMsg(arg.text, enc,
                                 Handling(arg.default, arg.overrides)))

call_encode_cl100k_no_special_tokens ==
  DirectCall("encode_cl100k_no_special_tokens", "Cl100k",
             EncodeTokensMsg(arg.text, "Cl100k", NoSpecialTokens))

call_approx_num_tokens ==
  \E enc \in CallEncodings :
    DirectCall("approx_num_tokens", enc,
               ApproximateNumTokensMsg(arg.text, enc, arg.flag))

call_encode ==
  \E enc \in CallEncodings :
    DirectCall("encode", enc,
               EncodeTokensMsg(arg.text, enc,
                               Handling(arg.default, arg.overrides)))

call_encode_single_token ==
  \E enc \in CallEncodings :
    DirectCall("encode_single_token", enc, EncodeSingleTokenMsg(arg.text, enc))

call_decode_byte ==
  \E enc \in CallEncodings :
    DirectCall("decode_byte", enc, DecodeTokenBytesMsg(arg.token, enc))

call_decode ==
  \E enc \in CallEncodings :
    DirectCall("decode", enc,
               DecodeTokensMsg(<<arg.token, arg.token + 1>>, enc))

\* ------------------------------------------------------------ the workers
\* The actor threads are alike and hold no state of their own between two
\* messages, so the pool is kept as counts: idle threads, threads inside
\* handle_message by the message they hold, and dead threads.

\* Dequeue from the wrong end: the newest message is taken.
DequeueNewest ==
  /\ idle > 0
  /\ Len(queue) > 0
  /\ idle' = idle - 1
  /\ holding' = [holding EXCEPT ![queue[Len(queue)]] = @ + 1]
  /\ queue' = SubSeq(queue, 1, Len(queue) - 1)
  /\ before' = {p \in before : p[1] # queue[Len(queue)] /\ p[2] # queue[Len(queue)]}
  /\ handled' = [handled EXCEPT ![queue[Len(queue)]] = @ + 1]
  /\ UNCHANGED <<statics, direct, stuck, dead, closed, pc, msg, chan, outcome, sendCalls>>

\* Dequeue that reads the oldest message and leaves it in the queue.
DequeuePeek ==
  /\ idle > 0
  /\ Len(queue) > 0
  /\ idle' = idle - 1
  /\ holding' = [holding EXCEPT ![Head(queue)] = @ + 1]
  /\ handled' = [handled EXCEPT ![Head(queue)] = @ + 1]
  /\ UNCHANGED <<statics, direct, stuck, dead, queue, before, closed, pc, msg, chan, outcome,
                 sendCalls>>

\* Dequeue of a pool that handles one message at a time, as one actor
\* thread would: no message is taken while a thread is inside
\* handle_message.
DequeueSerial ==
  /\ idle > 0
  /\ Busy + Stalled = 0
  /\ Len(queue) > 0
  /\ idle' = idle - 1
  /\ holding' = [holding EXCEPT ![Head(queue)] = @ + 1]
  /\ queue' = Tail(queue)
  /\ before' = {p \in before : p[1] # Head(queue) /\ p[2] # Head(queue)}
  /\ handled' = [handled EXCEPT ![Head(queue)] = @ + 1]
  /\ UNCHANGED <<statics, direct, stuck, dead, closed, pc, msg, chan, outcome, sendCalls>>

\* run_tokenizer_actor: recv_blocking() of an idle thread returns the oldest
\* message, and the thread enters handle_message with it.
Dequeue ==
  /\ idle > 0
  /\ Len(queue) > 0
  /\ idle' = idle - 1
  /\ holding' = [holding EXCEPT ![Head(queue)] = @ + 1]
  /\ queue' = Tail(queue)
  /\ before' = {p \in before : p[1] # Head(queue) /\ p[2] # Head(queue)}
  /\ handled' = [handled EXCEPT ![Head(queue)] = @ + 1]
  /\ UNCHANGED <<statics, direct, stuck, dead, closed, pc, msg, chan, outcome, sendCalls>>

\* respond_to.send(v): the value is stored unless the receiver was dropped,
\* in which case it comes back as Err and is ignored.
ReplySend(c, v) ==
  IF pc[c] = "cancelled" THEN RefusedChan ELSE SentChan(v)

\* Handle with respond_to.send(v).unwrap(): a reply the dropped receiver
\* refuses panics the thread.
HandleUnwrap(c) ==
  /\ holding[c] > 0
  /\ chan' = [chan EXCEPT ![c] = ReplySend(c, HandleResult(msg[c]))]
  /\ sendCalls' = [sendCalls EXCEPT ![c] = @ + 1]
  /\ msg' = [msg EXCEPT ![c] = NoMsg]
  /\ holding' = [holding EXCEPT ![c] = @ - 1]
  /\ IF pc[c] = "cancelled"
       THEN /\ dead' = dead + 1
            /\ closed' = (closed \/ LiveWorkers = 1)
            /\ UNCHANGED idle
       ELSE /\ idle' = idle + 1
            /\ UNCHANGED <<dead, closed>>
  /\ UNCHANGED <<statics, direct, stuck, queue, before, pc, outcome, handled>>

\* Handle that computes the reply from a message of another caller when
\* there is one in the queue or in a thread, and sends it on c's channel.
HandleCross(c) ==
  /\ holding[c] > 0
  /\ LET others == {d \in Callers : d # c /\ msg[d] # NoMsg /\ pc[d] = "awaiting"}
         from == IF others = {} THEN c ELSE CHOOSE d \in others : TRUE
     IN  chan' = [chan EXCEPT ![c] = ReplySend(c, HandleResult(msg[from]))]
  /\ sendCalls' = [sendCalls EXCEPT ![c] = @ + 1]
  /\ msg' = [msg EXCEPT ![c] = NoMsg]
  /\ holding' = [holding EXCEPT ![c] = @ - 1]
  /\ idle' = idle + 1
  /\ UNCHANGED <<statics, direct, stuck, dead, queue, closed, before, pc, outcome, handled>>

\* Handle whose estimate is not a function of the message alone: the reply
\* to an ApproximateNumTokens message grows with the messages still queued.
HandleAddsQueued(c) ==
  /\ holding[c] > 0
  /\ chan' = [chan EXCEPT ![c] =
                IF msg[c].kind = "ApproximateNumTokens"
                  THEN ReplySend(c, Ok(<<HandleResult(msg[c]).val[1] + Len(queue)>>))
                  ELSE ReplySend(c, HandleResult(msg[c]))]
  /\ sendCalls' = [sendCalls EXCEPT ![c] = @ + 1]
  /\ msg' = [msg EXCEPT ![c] = NoMsg]
  /\ holding' = [holding EXCEPT ![c] = @ - 1]
  /\ idle' = idle + 1
  /\ UNCHANGED <<statics, direct, stuck, dead, queue, closed, before, pc, outcome, handled>>

\* Handle that puts a message the engine failed on back into the queue for
\* another try, and replies only when the second try fails too.
HandleRetry(c) ==
  /\ holding[c] > 0
  /\ holding' = [holding EXCEPT ![c] = @ - 1]
  /\ idle' = idle + 1
  /\ IF HandleResult(msg[c]).tag = "err" /\ handled[c] < 2
       THEN /\ Enqueue(c)
            /\ UNCHANGED <<chan, sendCalls, msg>>
       ELSE /\ chan' = [chan EXCEPT ![c] = ReplySend(c, HandleResult(msg[c]))]
            /\ sendCalls' = [sendCalls EXCEPT ![c] = @ + 1]
            /\ msg' = [msg EXCEPT ![c] = NoMsg]
            /\ UNCHANGED <<queue, before>>
  /\ UNCHANGED <<statics, direct, stuck, dead, closed, pc, outcome, handled>>

\* handle_message returns in the thread that holds c's message: the engine
\* ran, the reply was sent, the message is consumed, and the thread is back
\* at recv_blocking().
Handle(c) ==
  /\ holding[c] > 0
  /\ chan' = [chan EXCEPT ![c] = ReplySend(c, HandleResult(msg[c]))]
  /\ sendCalls' = [sendCalls EXCEPT ![c] = @ + 1]
  /\ msg' = [msg EXCEPT ![c] = NoMsg]
  /\ holding' = [holding EXCEPT ![c] = @ - 1]
  /\ idle' = idle + 1
  /\ UNCHANGED <<statics, direct, stuck, dead, queue, closed, before, pc, outcome, handled>>

\* The engine panics inside handle_message: the thread unwinds, dropping the
\* message with its respond_to and the actor with its Receiver; the drop of
\* the last Receiver closes the channel, the queued messages stay in it.
Panic(c) ==
  /\ holding[c] > 0
  /\ chan' = [chan EXCEPT ![c] = IF pc[c] = "cancelled" THEN RefusedChan
                                 ELSE ClosedChan]
  /\ msg' = [msg EXCEPT ![c] = NoMsg]
  /\ holding' = [holding EXCEPT ![c] = @ - 1]
  /\ dead' = dead + 1
  /\ closed' = (closed \/ LiveWorkers = 1)
  /\ UNCHANGED <<statics, direct, stuck, idle, queue, before, pc, outcome, handled, sendCalls>>

\* The engine never returns from the operation on c's message: the thread
\* stays inside handle_message for good, with the message and its
\* respond_to, and with its Receiver.  One thread at most stalls.
Stall(c) ==
  /\ holding[c] > 0
  /\ stuck = 0
  /\ holding' = [holding EXCEPT ![c] = @ - 1]
  /\ stuck' = c
  /\ UNCHANGED <<statics, direct, idle, dead, queue, closed, before, pc, msg,
                 chan, outcome, handled, sendCalls>>

\* ----------------------------------------------------------- specification
\* The facade as the callers of the model use it: caller c is a client of
\* the counting, the encoding or the decoding operations, by c modulo 3.
Facade(c) ==
  \/ c % 3 = 1 /\ exact_num_tokens_no_special_tokens(c)
  \/ c % 3 = 1 /\ exact_num_tokens(c)
  \/ c % 3 = 1 /\ approx_num_tokens(c)
  \/ c % 3 = 2 /\ encode_cl100k_no_special_tokens(c)
  \/ c % 3 = 2 /\ encode(c)
  \/ c % 3 = 2 /\ encode_single_token(c)
  \/ c % 3 = 0 /\ decode_byte(c)
  \/ c % 3 = 0 /\ decode(c)

Next ==
  \/ \E r \in {"ok", "err"} : GetTokenizer(r)
  \/ \E c \in Callers : Facade(c)
  \/ \E c \in Callers : SendResume(c)
  \/ \E c \in Callers : AwaitReply(c)
  \/ \E c \in Callers : Cancel(c)
  \/ \E c \in Callers : Return(c)
  \/ Dequeue
  \/ \E c \in Callers : Handle(c)
  \/ \E c \in Callers : Panic(c)

Spec == Init /\ [][Next]_vars

\* What the schedulers guarantee: an actor thread is an OS thread, so one
\* that can take a message or finish handle_message does; the async runtime
\* polls a woken task, so a send that can complete and an await whose
\* channel is settled do.
Fairness ==
  /\ WF_vars(Dequeue)
  /\ \A c \in Callers : WF_vars(Handle(c))
  /\ \A c \in Callers : WF_vars(SendResume(c))
  /\ \A c \in Callers : WF_vars(AwaitReply(c))

\* Every caller makes one call and keeps awaiting; the engine returns from
\* every operation.
NextLive ==
  \/ \E r \in {"ok", "err"} : GetTokenizer(r)
  \/ \E c \in Callers : Facade(c)
  \/ \E c \in Callers : SendResume(c)
  \/ \E c \in Callers : AwaitReply(c)
  \/ Dequeue
  \/ \E c \in Callers : Handle(c)

SpecLive == Init /\ [][NextLive]_vars /\ Fairness

\* As NextLive, and a caller may drop its call.
NextCancel ==
  \/ \E r \in {"ok", "err"} : GetTokenizer(r)
  \/ \E c \in Callers : Facade(c)
  \/ \E c \in Callers : SendResume(c)
  \/ \E c \in Callers : AwaitReply(c)
  \/ \E c \in Callers : Cancel(c)
  \/ Dequeue
  \/ \E c \in Callers : Handle(c)

SpecCancel == Init /\ [][NextCancel]_vars /\ Fairness

\* As NextLive, and the engine may panic and a caller may call again.
NextCrash ==
  \/ \E r \in {"ok", "err"} : GetTokenizer(r)
  \/ \E c \in Callers : Facade(c)
  \/ \E c \in Callers : SendResume(c)
  \/ \E c \in Callers : AwaitReply(c)
  \/ \E c \in Callers : Return(c)
  \/ Dequeue
  \/ \E c \in Callers : Handle(c)
  \/ \E c \in Callers : Panic(c)

SpecCrash == Init /\ [][NextCrash]_vars /\ Fairness

\* As NextLive, and the host makes SyncTokenizer values and calls them.
NextSync ==
  \/ \E r \in {"ok", "err"} : GetTokenizer(r)
  \/ \E r \in {"ok", "err"} : SyncTokenizerNew(r)
  \/ sync_approx_num_tokens
  \/ \E c \in Callers : Facade(c)
  \/ \E c \in Callers : SendResume(c)
  \/ \E c \in Callers : AwaitReply(c)
  \/ Dequeue
  \/ \E c \in Callers : Handle(c)

SpecSync == Init /\ [][NextSync]_vars

\* As NextLive, and the engine may not return from one operation.
NextStall ==
  \/ \E r \in {"ok", "err"} : GetTokenizer(r)
  \/ \E c \in Callers : Facade(c)
  \/ \E c \in Callers : SendResume(c)
  \/ \E c \in Callers : AwaitReply(c)
  \/ Dequeue
  \/ \E c \in Callers : Handle(c)
  \/ \E c \in Callers : Stall(c)

SpecStall == Init /\ [][NextStall]_vars /\ Fairness

\* As NextLive, with the calls made in the order of the callers: c calls
\* once every caller before it has called.
CallsInTurn(c) ==
  /\ \A d \in Callers : d < c => pc[d] # "idle"
  /\ Facade(c)

NextOrdered ==
  \/ \E r \in {"ok", "err"} : GetTokenizer(r)
  \/ \E c \in Callers : CallsInTurn(c)
  \/ \E c \in Callers : SendResume(c)
  \/ \E c \in Callers : AwaitReply(c)
  \/ Dequeue
  \/ \E c \in Callers : Handle(c)

SpecOrdered == Init /\ [][NextOrdered]_vars

\* The host gets the handle and makes calls one at a time, each run to its
\* end before the next, with arguments drawn from CallArgs.
InitCalls == Loaded /\ arg \in CallArgs

NextCalls ==
  \/ \E r \in {"ok", "err"} : GetTokenizer(r)
  \/ call_exact_num_tokens_no_special_tokens
  \/ call_exact_num_tokens
  \/ call_encode_cl100k_no_special_tokens
  \/ call_approx_num_tokens
  \/ call_encode
  \/ call_encode_single_token
  \/ call_decode_byte
  \/ call_decode

SpecCalls == InitCalls /\ [][NextCalls]_vars

\* ------------------------------------------------------------------ claims
IsKilled(o) == o.tag = "err" /\ o.val[1] = ActorKilled

IsDomainError(o) == o.tag = "err" /\ o.val[1] # ActorKilled

\* How many copies of c's message the queue holds.
CopiesQueued(c) == Cardinality({i \in 1..Len(queue) : queue[i] = c})

\* C1: at most one actor thread is inside handle_message at any time, that
\* is, between taking a message from the queue and sending its reply.
C1_NoParallelHandling == Busy <= 1

\* C3 as claimed: the queue never holds more than Capacity messages; a send
\* is suspended exactly when the queue holds Capacity messages; and a
\* suspended send that completes once a slot is free has put its message at
\* the tail of the queue.
C3_Original ==
  /\ [](Len(queue) <= Capacity)
  /\ [][\A c \in Callers :
          (pc[c] = "idle" /\ pc'[c] # "idle")
            => (pc'[c] = "sending" <=> Len(queue) = Capacity)]_vars
  /\ [][\A c \in Callers :
          (pc[c] = "sending" /\ pc'[c] = "awaiting" /\ Len(queue) < Capacity)
            => (queue' = Append(queue, c) /\ msg'[c] = msg[c])]_vars

\* C3 as amended: the queue never holds more than Capacity messages; a send
\* is suspended exactly when the queue holds Capacity messages and the
\* channel is not closed; a suspended send that completes on an open channel
\* has put its message, unchanged, at the tail of the queue, and on a closed
\* channel has dropped it and closed its reply channel.
C3_BoundedQueue ==
  /\ [](Len(queue) <= Capacity)
  /\ [][\A c \in Callers :
          (pc[c] = "idle" /\ pc'[c] # "idle")
            => (pc'[c] = "sending" <=> (Len(queue) = Capacity /\ ~closed))]_vars
  /\ [][\A c \in Callers :
          (pc[c] = "sending" /\ pc'[c] = "awaiting")
            => IF closed
                 THEN ~InQueue(c) /\ msg'[c] = NoMsg /\ chan'[c] = ClosedChan
                           /\ queue' = queue
                 ELSE queue' = Append(queue, c) /\ msg'[c] = msg[c]]_vars

\* A send is suspended on a full, open queue.
C3_Witness ==
  \E c \in Callers : pc[c] = "sending" /\ Len(queue) = Capacity /\ ~closed

\* C4: a message is taken from the queue only when no message whose enqueue
\* completed earlier is still queued, and the messages left behind keep
\* their order.
C4_Fifo ==
  [][\A c \in Callers :
       handled'[c] = handled[c] + 1
         => /\ ~\E d \in Callers : <<d, c>> \in before
            /\ \A a, b \in Callers \ {c} :
                 <<a, b>> \in before => <<a, b>> \in before']_vars

\* A worker holds c's message, taken while d's was queued behind it: e is
\* still suspended on the queue that c and d had filled.
C4_Witness ==
  \E c, d, e \in Callers :
    /\ holding[c] > 0
    /\ queue = <<d>>
    /\ pc[e] = "sending"

\* C5: a message is in one place at a time, queue or worker; it enters
\* handle_message at most once; at most one value is sent on its reply
\* channel; and once the reply was sent the message is gone from the queue
\* and from every worker.
C5_ConsumedOnce ==
  \A c \in Callers :
    /\ CopiesQueued(c) + holding[c] <= 1
    /\ handled[c] <= 1
    /\ sendCalls[c] <= 1
    /\ sendCalls[c] = 1 =>
         (~InQueue(c) /\ holding[c] = 0 /\ msg[c] = NoMsg /\ handled[c] = 1)

\* A reply was sent and received while another message is being handled.
C5_Witness ==
  \E c, d \in Callers :
    /\ sendCalls[c] = 1 /\ pc[c] = "done" /\ outcome[c].tag = "ok"
    /\ holding[d] = 1

\* C6: a finished call gave the "Actor task has been killed" error exactly
\* when its reply channel was closed with no value ever sent on it, and a
\* domain error exactly when a worker sent an error value on it; no value a
\* worker sends is the "Actor task has been killed" error.
C6_FailuresDistinct ==
  \A c \in Callers :
    /\ pc[c] = "done" =>
         /\ IsKilled(outcome[c]) <=> (chan[c].st = "closed" /\ sendCalls[c] = 0)
         /\ IsDomainError(outcome[c]) <=>
              (chan[c].st = "sent" /\ chan[c].val.tag = "err")
         /\ IsDomainError(outcome[c]) => outcome[c] = chan[c].val
    /\ chan[c].st = "sent" => ~IsKilled(chan[c].val)

\* One call ended with the dispatch failure and another with a domain error.
C6_Witness ==
  \E c, d \in Callers :
    /\ pc[c] = "done" /\ IsKilled(outcome[c])
    /\ pc[d] = "done" /\ IsDomainError(outcome[d])

\* C9: once the build of the encoding table has failed, every call of
\* get_tokenizer and of the SyncTokenizer constructor returns the failure as
\* an error value, the build has run once only, and no worker was started.
C9_FailureCachedAndReturned ==
  ENCODINGS = "err" =>
    /\ handle \in {"none", "err"}
    /\ syncTok \in {"none", "err"}
    /\ builds = 1
    /\ spawned = 0

\* C10: once get_tokenizer has succeeded NumWorkers actor threads have been
\* started on one queue, and no later step starts another thread or makes
\* another queue; the threads still running are those started less the
\* dead ones, so their number never grows.
C10_FixedPool ==
  /\ [](/\ spawned \in {0, NumWorkers}
        /\ channels <= 1
        /\ idle + Busy = spawned - dead
        /\ (TOKENIZER = "ok" <=> spawned = NumWorkers)
        /\ (handle = "ok" => spawned = NumWorkers))
  /\ [][TOKENIZER = "ok" =>
          /\ spawned' = spawned
          /\ channels' = channels
          /\ TOKENIZER' = "ok"
          /\ idle' + Busy' <= idle + Busy]_vars

\* get_tokenizer has succeeded, and the four threads of the one pool are at
\* work or waiting.
C10_Witness ==
  /\ handle = "ok"
  /\ spawned = NumWorkers
  /\ Busy >= 2
  /\ idle + Busy = NumWorkers

\* C2: under SpecLive every request submitted, suspended on the full queue
\* or queued, ends with its caller holding the value a worker sent on its
\* reply channel, and exactly one value was sent on that channel.
C2_NoRequestLost ==
  /\ \A c \in Callers :
       (pc[c] \in {"sending", "awaiting"})
         ~> (pc[c] = "done" /\ chan[c].st = "sent" /\ outcome[c] = chan[c].val)
  /\ [](\A c \in Callers :
          /\ sendCalls[c] <= 1
          /\ pc[c] = "done" => sendCalls[c] = 1)

\* More requests than the queue holds: one caller has its reply while
\* another is still suspended in its send.
C2_Witness ==
  \E c, d \in Callers :
    /\ pc[c] = "done" /\ outcome[c].tag \in {"ok", "err"}
    /\ pc[d] = "sending"

\* c's reply will never be sent: its reply channel is closed (the worker
\* handling it died, or its send failed on the closed queue), or it is
\* queued and no worker is left.
ReplyNeverComes(c) ==
  \/ chan[c].st = "closed"
  \/ InQueue(c) /\ LiveWorkers = 0

\* C7: a caller awaiting a reply that will never be sent ends with the
\* "Actor task has been killed" error.
C7_FailureReachesCaller ==
  \A c \in Callers :
    (pc[c] = "awaiting" /\ ReplyNeverComes(c))
      ~> (pc[c] = "done" /\ IsKilled(outcome[c]))

\* C8: under SpecCancel, the message of a caller that dropped its call is
\* still taken and handled to the end; the refused reply leaves the thread
\* alive and back at the queue and touches no other request; no thread is
\* ever lost; and every request whose caller keeps awaiting ends with the
\* value a worker sent on its own channel.
C8_CancelHarmless ==
  /\ [][\A c \in Callers :
          (pc[c] = "cancelled" /\ holding'[c] < holding[c])
            => /\ idle' = idle + 1
               /\ dead' = dead
               /\ closed' = closed
               /\ sendCalls'[c] = sendCalls[c] + 1
               /\ chan'[c] = RefusedChan
               /\ \A d \in Callers \ {c} :
                    chan'[d] = chan[d] /\ pc'[d] = pc[d] /\ msg'[d] = msg[d]]_vars
  /\ [](idle + Busy = spawned /\ ~closed)
  /\ \A c \in Callers :
       (pc[c] = "cancelled" /\ (InQueue(c) \/ holding[c] > 0))
         ~> (msg[c] = NoMsg /\ sendCalls[c] = 1 /\ holding[c] = 0)
  /\ \A d \in Callers :
       (pc[d] \in {"sending", "awaiting"})
         ~> \/ pc[d] = "cancelled"
            \/ pc[d] = "done" /\ chan[d].st = "sent" /\ outcome[d] = chan[d].val

\* The reply to a cancelled call was refused, every thread is back at the
\* queue, and another caller has its own reply.
C8_Witness ==
  \E c, d \in Callers :
    /\ pc[c] = "cancelled" /\ chan[c] = RefusedChan /\ sendCalls[c] = 1
    /\ pc[d] = "done" /\ chan[d].st = "sent"
    /\ idle = NumWorkers

\* Whether a step is the reply of the thread that holds c's message.
Replies(c) == sendCalls'[c] = sendCalls[c] + 1

\* C11: a SyncTokenizer::approx_num_tokens call changes nothing of the
\* queue, the actor threads, the callers, their messages and their reply
\* channels; it can be made in every state in which a SyncTokenizer exists;
\* the value it returns is the value the ApproximateNumTokens handler gives
\* for the same text and selector with the flag false, and is the value a
\* thread replies to such a message.
C11_SyncBypasses ==
  /\ [][syncOut' # syncOut =>
          /\ queue' = queue /\ before' = before /\ closed' = closed
          /\ idle' = idle /\ holding' = holding /\ dead' = dead
          /\ pc' = pc /\ msg' = msg /\ chan' = chan /\ outcome' = outcome
          /\ handled' = handled /\ sendCalls' = sendCalls]_vars
  /\ [](syncTok = "ok" => ENABLED sync_approx_num_tokens)
  /\ [](syncOut.done =>
          Ok(<<syncOut.val>>) =
            HandleResult(ApproximateNumTokensMsg(syncOut.text,
                                                 syncOut.encoding, FALSE)))
  /\ [][\A c \in Callers :
          (/\ Replies(c) /\ pc[c] # "cancelled" /\ syncOut.done
           /\ msg[c].kind = "ApproximateNumTokens"
           /\ msg[c].text = syncOut.text
           /\ msg[c].encoding = syncOut.encoding
           /\ ~msg[c].replace_spaces_with_lower_one_eighth_block)
            => chan'[c] = SentChan(Ok(<<syncOut.val>>))]_vars

\* The sync call has returned the estimate of the marker text, a thread has
\* replied the same value to a caller of the async operation, and a send is
\* still suspended on the queue.
C11_Witness ==
  /\ syncOut.done /\ syncOut.text = Marker /\ syncOut.encoding = "Cl100k"
  /\ \E c \in Callers : pc[c] = "sending"
  /\ \E d \in Callers : chan[d] = SentChan(Ok(<<syncOut.val>>))

\* The calls made one at a time, by their place in calls.
CallIds == 1..Len(calls)

\* C12: exact_num_tokens_no_special_tokens on Cl100k returns n exactly when
\* encode_cl100k_no_special_tokens of the same text returns a sequence of
\* length n; and an ExactNumTokens and an EncodeTokens message with the same
\* text, selector and policy are replied either a count and a sequence of
\* that length, or both the error "Error encoding string".
C12_CountAgreesWithEncode ==
  \A i, j \in CallIds :
    /\ (/\ calls[i].op = "exact_num_tokens_no_special_tokens"
        /\ calls[i].encoding = "Cl100k"
        /\ calls[j].op = "encode_cl100k_no_special_tokens")
         => /\ calls[i].val.tag = "ok" <=> calls[j].val.tag = "ok"
            /\ calls[i].val.tag = "ok"
                 => calls[i].val.val = <<Len(calls[j].val.val)>>
    /\ (/\ calls[i].msg.kind = "ExactNumTokens"
        /\ calls[j].msg.kind = "EncodeTokens"
        /\ calls[i].msg.text = calls[j].msg.text
        /\ calls[i].msg.encoding = calls[j].msg.encoding
        /\ calls[i].msg.special_token_handling
             = calls[j].msg.special_token_handling)
         => \/ /\ calls[i].val.tag = "ok" /\ calls[j].val.tag = "ok"
               /\ calls[i].val.val = <<Len(calls[j].val.val)>>
            \/ /\ calls[i].val = Err("Error encoding string")
               /\ calls[j].val = Err("Error encoding string")

\* exact_num_tokens and encode were called with the marker forbidden by an
\* override, and both returned the domain error.
C12_Witness ==
  \E i, j \in CallIds :
    /\ calls[i].op = "exact_num_tokens" /\ calls[j].op = "encode"
    /\ calls[i].encoding = calls[j].encoding
    /\ arg.text = Marker /\ arg.default = 1 /\ arg.overrides = (Marker :> 0)
    /\ calls[i].val = Err("Error encoding string")
    /\ calls[j].val = Err("Error encoding string")

\* The action the host names by the number a of the napi enum.
ActionAsked(a) == <<"Forbidden", "NormalText", "Special">>[a + 1]

C14_FailureReportedOnce ==
  /\ [][\A c \in Callers :
          (/\ Replies(c) /\ msg[c].kind # "none"
           /\ HandleResult(msg[c]).tag = "err")
            => /\ chan'[c] = SentChan(HandleResult(msg[c]))
               /\ handled' = handled
               /\ queue' = queue
               /\ msg'[c] = NoMsg /\ holding'[c] = 0
               /\ idle' = idle + 1 /\ dead' = dead]_vars
  /\ [](\A c \in Callers : handled[c] <= 1 /\ sendCalls[c] <= handled[c])
  /\ [][Len(queue') > Len(queue) =>
          \E c \in Callers :
            /\ pc[c] \in {"idle", "sending"} /\ pc'[c] = "awaiting"
            /\ ~InQueue(c) /\ handled[c] = 0
            /\ queue' = Append(queue, c)]_vars

\* A caller was handed the domain error of its one reply, and the threads,
\* all alive, have gone on to the next message.
C14_Witness ==
  \E c, d \in Callers :
    /\ pc[c] = "done" /\ IsDomainError(outcome[c])
    /\ handled[c] = 1 /\ sendCalls[c] = 1
    /\ holding[d] > 0 /\ dead = 0 /\ idle + Busy = NumWorkers

\* C15: under SpecStall, once a thread is stalled the other NumWorkers - 1
\* threads stay in the pool, idle or handling; every request but the one
\* the stalled thread holds ends with its caller holding the value sent on
\* its channel; the stalled request stays as it is, its channel open and
\* its caller awaiting.
C15_StallCostsOne ==
  /\ [](stuck # 0 => /\ idle + Busy = NumWorkers - 1
                     /\ dead = 0 /\ ~closed
                     /\ pc[stuck] = "awaiting" /\ chan[stuck] = OpenChan
                     /\ msg[stuck].kind # "none" /\ ~InQueue(stuck))
  /\ [][stuck # 0 => stuck' = stuck]_vars
  /\ \A c \in Callers :
       (pc[c] \in {"sending", "awaiting"})
         ~> \/ stuck = c
            \/ pc[c] = "done" /\ chan[c].st = "sent" /\ outcome[c] = chan[c].val

\* A thread is stalled on one request, and every other caller, one of which
\* was suspended on the full queue, has its reply.
C15_Witness ==
  /\ stuck # 0
  /\ \A d \in Callers \ {stuck} : pc[d] = "done" /\ chan[d].st = "sent"
  /\ idle = NumWorkers - 1

\* C16: under SpecOrdered the enqueues complete in the order of the callers;
\* what holds of the replies is that a message is handled once, and its
\* reply channel is sent one value at most and keeps the value it was sent.  (That a later request is replied
\* to first is the state C16_Witness.)
C16_SingleDeliveryOnly ==
  /\ [][\A c \in Callers :
          (~InQueue(c) /\ queue' = Append(queue, c))
            => \A d \in Callers : d < c => (InQueue(d) \/ handled[d] = 1)]_vars
  /\ [](\A p \in before : p[1] < p[2])
  /\ [](\A c \in Callers :
          /\ sendCalls[c] <= 1 /\ sendCalls[c] <= handled[c] /\ handled[c] <= 1
          /\ chan[c].st = "sent" => sendCalls[c] = 1)
  /\ [][\A c \in Callers : chan[c].st = "sent" => chan'[c] = chan[c]]_vars

\* a's enqueue completed before b's, and b's caller has its reply while a's
\* message is still inside handle_message, no reply sent.
C16_Witness ==
  \E a, b \in Callers :
    /\ a < b
    /\ pc[b] = "done" /\ chan[b].st = "sent"
    /\ holding[a] > 0 /\ pc[a] = "awaiting" /\ chan[a] = OpenChan

\* C17: the call of decode and of approx_num_tokens, and the reply to every
\* DecodeTokens and ApproximateNumTokens message, is a success value,
\* whatever the ids, the text and the flag; an error value is the reply to
\* an EncodeTokens, ExactNumTokens, EncodeSingleToken or DecodeTokenBytes
\* message only, and is never the "Actor task has been killed" error.
C17_NoDomainErrorForDecodeApprox ==
  \A i \in CallIds :
    /\ calls[i].msg.kind \in {"DecodeTokens", "ApproximateNumTokens"}
         => calls[i].val.tag = "ok"
    /\ calls[i].op \in {"decode", "approx_num_tokens"}
         => /\ calls[i].msg.kind \in {"DecodeTokens", "ApproximateNumTokens"}
            /\ calls[i].val = Ok(HandleResult(calls[i].msg).val)
    /\ calls[i].val.tag = "err"
         => /\ calls[i].msg.kind \in {"EncodeTokens", "ExactNumTokens",
                                      "EncodeSingleToken", "DecodeTokenBytes"}
            /\ ~IsKilled(calls[i].val)

\* decode of ids outside the vocabulary returned a text, and decode_byte of
\* the same id returned a domain error.
C17_Witness ==
  \E i, j \in CallIds :
    /\ arg.token = 999
    /\ calls[i].op = "decode" /\ calls[i].val.tag = "ok"
    /\ calls[j].op = "decode_byte" /\ IsDomainError(calls[j].val)

\* Whether a thread replies to c's ApproximateNumTokens message in this
\* step, c still awaiting.
RepliesApprox(c) ==
  /\ Replies(c) /\ pc[c] # "cancelled"
  /\ msg[c].kind = "ApproximateNumTokens"

RequestsOf(c) ==
  IF c % 3 = 1
    THEN {ExactNumTokensMsg(t, e, NoSpecialTokens) :
            t \in TextInputs, e \in EncodingInputs}
         \cup {ExactNumTokensMsg(t, e, Handling(d, ov)) :
                 t \in TextInputs, e \in EncodingInputs,
                 d \in DefaultInputs, ov \in OverrideInputs}
         \cup {ApproximateNumTokensMsg(t, e, f) :
                 t \in TextInputs, e \in EncodingInputs, f \in FlagInputs}
  ELSE IF c % 3 = 2
    THEN {EncodeTokensMsg(t, "Cl100k", NoSpecialTokens) : t \in TextInputs}
         \cup {EncodeTokensMsg(t, e, Handling(d, ov)) :
                 t \in TextInputs, e \in EncodingInputs,
                 d \in DefaultInputs, ov \in OverrideInputs}
         \cup {EncodeSingleTokenMsg(t, e) :
                 t \in TextInputs, e \in EncodingInputs}
  ELSE {DecodeTokenBytesMsg(k, e) : k \in TokenInputs, e \in EncodingInputs}
       \cup {DecodeTokensMsg(ks, e) : ks \in TokensInputs, e \in EncodingInputs}

OwnResults(c) == {HandleResult(m) : m \in RequestsOf(c)}

\* C19: replies are never cross-delivered.  The reply a thread sends goes
\* to the channel of the message it holds and is the result of that very
\* message, and no other caller's channel or outcome changes in the step;
\* a message is not altered between its submission and its handling; a
\* reply once sent stays as sent until the caller has taken it; and what
\* the caller receives is that reply, so a result of its own request, or
\* the killed error.
C19_NoCrossDelivery ==
  /\ [][\A c \in Callers :
          Replies(c)
            => /\ msg[c] \in RequestsOf(c)
               /\ chan'[c] = ReplySend(c, HandleResult(msg[c]))
               /\ \A d \in Callers \ {c} :
                    chan'[d] = chan[d] /\ outcome'[d] = outcome[d]]_vars
  /\ [][\A c \in Callers :
          (msg[c] # NoMsg /\ msg'[c] # NoMsg) => msg'[c] = msg[c]]_vars
  /\ [][\A c \in Callers :
          (chan[c].st = "sent" /\ pc'[c] # "idle") => chan'[c] = chan[c]]_vars
  /\ [][\A c \in Callers :
          (pc[c] = "awaiting" /\ pc'[c] = "done" /\ chan[c].st = "sent")
            => outcome'[c] = chan[c].val]_vars
  /\ [](\A c \in Callers :
          pc[c] = "done"
            => \/ outcome[c] = Err(ActorKilled) /\ chan[c].st = "closed"
               \/ /\ chan[c].st = "sent" /\ outcome[c] = chan[c].val
                  /\ outcome[c] \in OwnResults(c))

\* A caller has received the result of its own request while the request
\* of another caller, whose result is a different one, is inside a thread
\* and a third is still queued.
C19_Witness ==
  \E c \in Callers, d \in Callers :
    /\ c # d
    /\ pc[c] = "done" /\ chan[c].st = "sent"
    /\ outcome[c].tag = "ok" /\ outcome[c] \in OwnResults(c)
    /\ holding[d] > 0 /\ msg[d] # NoMsg
    /\ HandleResult(msg[d]) # outcome[c]
    /\ HandleResult(msg[d]) \notin OwnResults(c)
    /\ Len(queue) > 0

\* C20: a worker leaves its loop only when the queue is both closed and
\* empty, and the messages in the queue when it is closed are all dequeued
\* and handled before the workers exit.  So all four threads are gone only
\* with the queue closed and empty, and a closed queue that still holds a
\* message has a thread left to take it.
C20_DrainedBeforeExit ==
  /\ dead = NumWorkers => (closed /\ Len(queue) = 0)
  /\ (closed /\ Len(queue) > 0) => LiveWorkers > 0

====
